---- MODULE Spec2Model ----
(***************************************************************************)
(* Strategic Accounts Ownership Explorer (src/app.py).                     *)
(*                                                                         *)
(* The script is re-executed top to bottom on every user interaction       *)
(* ("render pass").  The state is the loaded table, the two function       *)
(* caches (load_data, geocode_zips), the session's widget_suffix, the      *)
(* widget values held by the browser, and what the last pass computed and  *)
(* put on the page.                                                        *)
(*                                                                         *)
(* Cell values are small integers standing for strings, ordered as the     *)
(* strings are.  Customer 0 and WSC_SAM 0 stand for a missing value (NaN); *)
(* Zip 0 stands for the empty string that load_data writes for a postal    *)
(* value without a 5-digit run.                                            *)
(***************************************************************************)
EXTENDS Integers, Sequences, FiniteSets, TLC

VARIABLES
    df,                    \* the table load_data returns (sequence of rows)
    columns,               \* df.columns
    data_cache,            \* load_data's cache holds the table
    geo_cache,             \* geocode_zips' cache: argument -> returned mapping
    widget_suffix,         \* st.session_state["widget_suffix"], 0 when absent
    widgets,               \* widget values held by the browser, by widget key
    pc,                    \* "start", "idle", or "rerun" (st.rerun() pending)
    customers, customer_choice,
    sam_vals, sam_choice,
    state_vals, state_choice,
    zip_vals, zip_choice,
    search_text,
    selected_stakeholders,
    filtered,              \* index labels of the filtered rows, in order
    geo,                   \* attach_coords(filtered): rows with lat/lon or NA
    map_points,            \* rows handed to the map figure
    map_shown, notice,     \* st.plotly_chart / st.info was called
    table, csv,            \* st.dataframe content, CSV export content
    outcome,               \* "none", "ok", "KeyError", "GeocodeError", "rerun";
                           \* "filtered" when only lines 95-161 are run
    provider_error         \* the geocoding provider raised in the last pass

vars == << df, columns, data_cache, geo_cache, widget_suffix,
           widgets, pc, customers, customer_choice, sam_vals, sam_choice,
           state_vals, state_choice, zip_vals, zip_choice, search_text,
           selected_stakeholders, filtered, geo, map_points, map_shown, notice,
           table, csv, outcome, provider_error >>

----------------------------------------------------------------------------
(* Bounds *)

MaxRows == 3        \* rows of the loaded table, filter controls alone
SessionRows == 2    \* rows of the loaded table, whole script

----------------------------------------------------------------------------
(* Sample data *)

NaN == 0
NA == -1

\* Rows the loaded table is drawn from.
Table ==
    << [Customer |-> 1,   WSC_SAM |-> 1,   State |-> 2, Zip |-> 1, Email |-> 1],
       [Customer |-> 1,   WSC_SAM |-> 2,   State |-> 1, Zip |-> 3, Email |-> 2],
       [Customer |-> 2,   WSC_SAM |-> NaN, State |-> 1, Zip |-> 0, Email |-> 3],
       [Customer |-> NaN, WSC_SAM |-> 1,   State |-> 2, Zip |-> 2, Email |-> 4] >>

DimColumns == {"Customer", "WSC_SAM", "State", "Zip"}
AllColumns == DimColumns \cup {"Email"}
\* Schemas of the loaded table: the four dimension columns, or one of them
\* absent; the table without WSC_SAM carries the Email stakeholder column.
Schemas ==
    {DimColumns} \cup {DimColumns \ {c} : c \in DimColumns \ {"WSC_SAM"}}
    \cup {(DimColumns \ {"WSC_SAM"}) \cup {"Email"}}

\* ZIP codes the geocoder's reference data knows.
KnownZips == {1, 2}
\* Search texts the user types (0 is the empty text), and the cells whose
\* string form contains each of them.
SearchTexts == {1}
CellsContaining(t) ==
    IF t = 1 THEN {<<"Customer", 1>>, <<"Email", 3>>} ELSE {}

----------------------------------------------------------------------------
(* Helpers *)

Range(s) == {s[i] : i \in DOMAIN s}

Min(S) == CHOOSE x \in S : \A y \in S : x <= y

RECURSIVE sorted(_)
\* sorted(<unique values>): ascending sequence of the set's members
sorted(S) == IF S = {} THEN << >> ELSE << Min(S) >> \o sorted(S \ {Min(S)})

RECURSIVE SubSeqs(_, _)
\* order-preserving selections of at most n rows of s
SubSeqs(s, n) ==
    IF s = << >> \/ n = 0 THEN { << >> }
    ELSE SubSeqs(Tail(s), n) \cup { << Head(s) >> \o t : t \in SubSeqs(Tail(s), n - 1) }

\* Mutant of isin: keeps the rows whose value is NOT among the chosen ones.
isin_excluding(frame, col, choice) == SelectSeq(frame, LAMBDA i : df[i][col] \notin choice)

\* frame[frame[col].isin(choice)] on a sequence of index labels
isin(frame, col, choice) == SelectSeq(frame, LAMBDA i : df[i][col] \in choice)

\* frame[col].dropna().unique(); only Customer and WSC_SAM can hold NaN
dropna_unique(frame, col) ==
    { df[i][col] : i \in Range(frame) } \ (IF col \in {"Customer", "WSC_SAM"} THEN {NaN} ELSE {})

\* df.copy(): every index label
AllRows == [i \in 1..Len(df) |-> i]

----------------------------------------------------------------------------
(* Widgets.  A widget's value lives in the browser under the widget's key;    *)
(* a key never seen before yields the widget's default.                       *)

Key(kind, col, suffix) == << kind, col, suffix >>

\* st.sidebar.multiselect(label, options, key=...): the values the call can
\* return.  The value is always drawn from the options.  When the option list
\* differs from the one the value was chosen from, the widget library either
\* starts the widget afresh or keeps the entries that are still offered,
\* depending on its version; the repository pins none.
multiselect(w, key, options) ==
    IF key \notin DOMAIN w THEN { {} }
    ELSE IF w[key].options = options THEN { w[key].value }
    ELSE { {}, w[key].value \cap Range(options) }

\* st.sidebar.text_input(label, key=...)
text_input(w, key) == IF key \in DOMAIN w THEN w[key].value ELSE 0

\* st.sidebar.checkbox(label, value=False, key=...)
checkbox(w, key) == IF key \in DOMAIN w THEN w[key].value ELSE FALSE

----------------------------------------------------------------------------
(* Cascading filter controls *)

\* line 95
Customers ==
    IF "Customer" \in columns THEN sorted(dropna_unique(AllRows, "Customer")) ELSE << >>

\* Mutant of SamVals: the SAM list ignores the chosen customers.
SamVals_unrestricted(cc) ==
    IF "WSC_SAM" \in columns THEN sorted(dropna_unique(AllRows, "WSC_SAM")) ELSE << >>

\* Mutant of SamVals: the SAM list is also narrowed by the State selection
\* on the page.
SamVals_cross(cc) ==
    LET s1 == IF cc # {} /\ "Customer" \in columns THEN isin(AllRows, "Customer", cc) ELSE AllRows
        s2 == IF state_choice # {} THEN isin(s1, "State", state_choice) ELSE s1
    IN  IF "WSC_SAM" \in columns THEN sorted(dropna_unique(s2, "WSC_SAM")) ELSE << >>

\* lines 98-102
SamVals(cc) ==
    IF cc # {} /\ "Customer" \in columns /\ "WSC_SAM" \in columns
    THEN sorted(dropna_unique(isin(AllRows, "Customer", cc), "WSC_SAM"))
    ELSE IF "WSC_SAM" \in columns THEN sorted(dropna_unique(AllRows, "WSC_SAM")) ELSE << >>

\* lines 105-109
StateSubset(cc, sc) ==
    LET s1 == IF cc # {} THEN isin(AllRows, "Customer", cc) ELSE AllRows
    IN  IF sc # {} /\ "WSC_SAM" \in columns THEN isin(s1, "WSC_SAM", sc) ELSE s1

\* Mutant of StateVals: the State list ignores the chosen SAMs.
StateVals_ignoring_sam(cc, sc) == sorted(dropna_unique(StateSubset(cc, {}), "State"))

\* line 110
StateVals(cc, sc) == sorted(dropna_unique(StateSubset(cc, sc), "State"))

\* lines 113-115
ZipSubset(cc, sc, stc) ==
    IF stc # {} THEN isin(StateSubset(cc, sc), "State", stc) ELSE StateSubset(cc, sc)

\* line 116
ZipVals(cc, sc, stc) == sorted(dropna_unique(ZipSubset(cc, sc, stc), "Zip"))

\* The column subscripts of lines 107-110 and 115-116 raise KeyError on an
\* absent column.
KeyError110(cc) == (cc # {} /\ "Customer" \notin columns) \/ "State" \notin columns
KeyError116 == "Zip" \notin columns

----------------------------------------------------------------------------
(* Stakeholder slicers *)

stakeholder_columns ==
    << "WSC_SAM", "WSC_VP_Sales", "WSC_RM", "WSC_Title", "WSC_Contact",
       "Siding_Specialist", "Regional / Market VP/SVP",
       "Area Manager / District Manager / Market Manager",
       "General Manager / MP", "Email", "Phone" >>

\* the checkboxes the loop of lines 139-142 creates
SlicerColumns == SelectSeq(stakeholder_columns, LAMBDA c : c \in columns)

\* lines 138-142
SelectedStakeholders(w, suffix) ==
    SelectSeq(SlicerColumns, LAMBDA c : checkbox(w, Key("slicer", c, suffix)))

----------------------------------------------------------------------------
(* Apply filters *)

\* line 158: some cell of the row, as a string, contains the text
SearchMask(i, text) == \E c \in columns : << c, df[i][c] >> \in CellsContaining(text)

\* Mutant of ApplyFilters: the State step filters the whole table, dropping the
\* Customer and SAM constraints.
ApplyFilters_state_from_df(cc, sc, stc, zc, text) ==
    LET f1 == IF cc # {} THEN isin(AllRows, "Customer", cc) ELSE AllRows
        f2 == IF sc # {} /\ "WSC_SAM" \in columns THEN isin(f1, "WSC_SAM", sc) ELSE f1
        f3 == IF stc # {} THEN isin(AllRows, "State", stc) ELSE f2
        f4 == IF zc # {} THEN isin(f3, "Zip", zc) ELSE f3
    IN  IF text # 0 THEN SelectSeq(f4, LAMBDA i : SearchMask(i, text)) ELSE f4

\* lines 147-159
ApplyFilters(cc, sc, stc, zc, text) ==
    LET f1 == IF cc # {} THEN isin(AllRows, "Customer", cc) ELSE AllRows
        f2 == IF sc # {} /\ "WSC_SAM" \in columns THEN isin(f1, "WSC_SAM", sc) ELSE f1
        f3 == IF stc # {} THEN isin(f2, "State", stc) ELSE f2
        f4 == IF zc # {} THEN isin(f3, "Zip", zc) ELSE f3
    IN  IF text # 0 THEN SelectSeq(f4, LAMBDA i : SearchMask(i, text)) ELSE f4

----------------------------------------------------------------------------
(* ZIP -> lat/lon *)

\* the argument of geocode_zips, filtered["Zip"]: index labels with their ZIPs
ZipSeries(frame) == [k \in DOMAIN frame |-> << frame[k], df[frame[k]].Zip >>]

\* lines 168-171: the provider's answer for the distinct ZIPs of the series
geocode_zips(zips) ==
    LET codes == { zips[k][2] : k \in DOMAIN zips } \ {0}
    IN  [ z \in codes |->
            IF z \in KnownZips THEN [latitude |-> 40 + z, longitude |-> 0 - (90 + z)]
            ELSE [latitude |-> NaN, longitude |-> NaN] ]

\* lines 174-184
attach_coords(df_in, zip_map) ==
    [ k \in DOMAIN df_in |->
        LET z == df[df_in[k]].Zip
        IN  IF z \in DOMAIN zip_map /\ zip_map[z].latitude # NaN
            THEN [row |-> df_in[k], lat |-> zip_map[z].latitude, lon |-> zip_map[z].longitude]
            ELSE [row |-> df_in[k], lat |-> NA, lon |-> NA] ]

\* geo.dropna(subset=["lat","lon"]), lines 193-206
dropna_coords(g) == SelectSeq(g, LAMBDA r : r.lat # NA /\ r.lon # NA)

----------------------------------------------------------------------------
(* Results table and CSV *)

ColumnOrder == << "Customer", "WSC_SAM", "State", "Zip", "Email" >>
ExtraColumns == << "City", "Address", "Branch", "Region", "Division" >>

\* lines 220-226
ColsToShow(sel) ==
    LET base == << "Customer", "WSC_SAM", "State", "Zip" >>
        a == base \o SelectSeq(sel, LAMBDA c : c \in columns /\ c \notin Range(base))
    IN  a \o SelectSeq(ExtraColumns, LAMBDA c : c \in columns /\ c \notin Range(a))

\* line 227
FilteredToDisplay(frame, sel) ==
    [ cols |-> IF Range(ColsToShow(sel)) \subseteq columns THEN ColsToShow(sel)
               ELSE SelectSeq(ColumnOrder, LAMBDA c : c \in columns),
      rows |-> frame ]

\* line 230: header row, then one line per row, index omitted
to_csv(t) ==
    << t.cols >> \o [ k \in DOMAIN t.rows |-> [ j \in DOMAIN t.cols |-> df[t.rows[k]][t.cols[j]] ] ]

----------------------------------------------------------------------------
(* The cascade and the filter, lines 95-161.  An uncaught exception ends the  *)
(* pass: what was put on the page before it stays, nothing after it is        *)
(* produced.                                                                  *)

\* the browser's entry for a widget the pass created
Entry(options, value) == [options |-> options, value |-> value]

\* KeyError at line 107 or 110: only the Customer and SAM widgets exist
Stopped110(suffix, custs, cc, sams, sc) ==
    [ customers |-> custs, customer_choice |-> cc, sam_vals |-> sams, sam_choice |-> sc,
      state_vals |-> << >>, state_choice |-> {}, zip_vals |-> << >>, zip_choice |-> {},
      search_text |-> 0, selected_stakeholders |-> << >>, filtered |-> << >>,
      error |-> TRUE,
      widgets |-> [ k \in { Key("cust", "", suffix), Key("sam", "", suffix) } |->
                      IF k[1] = "cust" THEN Entry(custs, cc) ELSE Entry(sams, sc) ] ]

\* KeyError at line 116: the State widget exists as well
Stopped116(suffix, custs, cc, sams, sc, states, stc) ==
    [ Stopped110(suffix, custs, cc, sams, sc) EXCEPT
        !.state_vals = states, !.state_choice = stc,
        !.widgets = [ k \in { Key("cust", "", suffix), Key("sam", "", suffix),
                              Key("state", "", suffix) } |->
                        IF k[1] = "cust" THEN Entry(custs, cc)
                        ELSE IF k[1] = "sam" THEN Entry(sams, sc)
                        ELSE Entry(states, stc) ] ]

\* lines 117-161: ZIP widget, search box, stakeholder checkboxes, filter
Filtered161(w, suffix, custs, cc, sams, sc, states, stc, zips, zc) ==
    LET text == text_input(w, Key("search", "", suffix))
        keys == { Key("cust", "", suffix), Key("sam", "", suffix), Key("state", "", suffix),
                  Key("zip", "", suffix), Key("search", "", suffix) }
                \cup { Key("slicer", c, suffix) : c \in Range(SlicerColumns) }
    IN  [ customers |-> custs, customer_choice |-> cc, sam_vals |-> sams, sam_choice |-> sc,
          state_vals |-> states, state_choice |-> stc, zip_vals |-> zips, zip_choice |-> zc,
          search_text |-> text,
          selected_stakeholders |-> SelectedStakeholders(w, suffix),
          filtered |-> ApplyFilters(cc, sc, stc, zc, text),
          error |-> FALSE,
          widgets |-> [ k \in keys |->
                          IF k[1] = "cust" THEN Entry(custs, cc)
                          ELSE IF k[1] = "sam" THEN Entry(sams, sc)
                          ELSE IF k[1] = "state" THEN Entry(states, stc)
                          ELSE IF k[1] = "zip" THEN Entry(zips, zc)
                          ELSE IF k[1] = "search" THEN Entry(<< >>, text)
                          ELSE Entry(<< >>, checkbox(w, k)) ] ]

\* lines 113-117
FromZip(w, suffix, custs, cc, sams, sc, states, stc) ==
    IF KeyError116
    THEN { Stopped116(suffix, custs, cc, sams, sc, states, stc) }
    ELSE { Filtered161(w, suffix, custs, cc, sams, sc, states, stc, ZipVals(cc, sc, stc), zc) :
             zc \in multiselect(w, Key("zip", "", suffix), ZipVals(cc, sc, stc)) }

\* lines 105-111
FromState(w, suffix, custs, cc, sams, sc) ==
    IF KeyError110(cc)
    THEN { Stopped110(suffix, custs, cc, sams, sc) }
    ELSE UNION { FromZip(w, suffix, custs, cc, sams, sc, StateVals(cc, sc), stc) :
                   stc \in multiselect(w, Key("state", "", suffix), StateVals(cc, sc)) }

\* lines 98-103
FromSam(w, suffix, custs, cc) ==
    UNION { FromState(w, suffix, custs, cc, SamVals(cc), sc) :
              sc \in multiselect(w, Key("sam", "", suffix), SamVals(cc)) }

\* lines 95-161 run with the browser's widget values w and the suffix: the
\* results the pass can have
Cascade(w, suffix) ==
    UNION { FromSam(w, suffix, Customers, cc) :
              cc \in multiselect(w, Key("cust", "", suffix), Customers) }

\* what lines 95-161 leave on the page and in the browser
CascadePage(c) ==
    /\ customers' = c.customers
    /\ customer_choice' = c.customer_choice
    /\ sam_vals' = c.sam_vals
    /\ sam_choice' = c.sam_choice
    /\ state_vals' = c.state_vals
    /\ state_choice' = c.state_choice
    /\ zip_vals' = c.zip_vals
    /\ zip_choice' = c.zip_choice
    /\ search_text' = c.search_text
    /\ selected_stakeholders' = c.selected_stakeholders
    /\ filtered' = c.filtered
    /\ widgets' = c.widgets
    \* line 70: load_data() fills its cache
    /\ data_cache' = TRUE

----------------------------------------------------------------------------
(* Geocoding, map, table and CSV, lines 163-232 *)

NoTable == [cols |-> << >>, rows |-> << >>]

\* what lines 163-232 leave on the page and in the geocode cache
GeoPage(g, shown, out, gc) ==
    /\ geo' = g
    /\ map_points' = dropna_coords(g)
    \* lines 193-214: the figure, or the notice
    /\ map_shown' = (out = "ok" /\ dropna_coords(g) # << >>)
    /\ notice' = (out = "ok" /\ dropna_coords(g) = << >>)
    /\ table' = shown
    /\ csv' = IF out = "ok" THEN to_csv(shown) ELSE << >>
    /\ outcome' = out
    /\ provider_error' = (out = "GeocodeError")
    /\ geo_cache' = gc

\* One run of the script from line 95 to line 232, or to the exception that
\* ends it: a KeyError of the cascade, or the exception the geocoding provider
\* raised inside geocode_zips (line 173).
Render(w, suffix) ==
    \E c \in Cascade(w, suffix) :
    /\ CascadePage(c)
    /\ IF c.error THEN GeoPage(<< >>, NoTable, "KeyError", geo_cache)
       ELSE
       \E series \in { ZipSeries(c.filtered) } :
       \* line 173: no call for an empty frame; a cached argument does not
       \* reach the provider
       \E raises \in (IF c.filtered # << >> /\ series \notin DOMAIN geo_cache
                      THEN BOOLEAN ELSE {FALSE}) :
       IF raises THEN GeoPage(<< >>, NoTable, "GeocodeError", geo_cache)
       ELSE
       \E zip_map \in { IF c.filtered = << >> THEN << >>
                        ELSE IF series \in DOMAIN geo_cache THEN geo_cache[series]
                        ELSE geocode_zips(series) } :
       GeoPage(attach_coords(c.filtered, zip_map),
               FilteredToDisplay(c.filtered, c.selected_stakeholders),
               "ok",
               IF c.filtered = << >> THEN geo_cache
               ELSE [ k \in DOMAIN geo_cache \cup {series} |->
                        IF k = series THEN zip_map ELSE geo_cache[k] ])

\* Lines 95-161 alone: the rest of the run, which changes nothing lines 95-161
\* read, is left out.
CascadeOnly(w, suffix) ==
    \E c \in Cascade(w, suffix) :
    /\ CascadePage(c)
    /\ outcome' = (IF c.error THEN "KeyError" ELSE "filtered")
    /\ UNCHANGED << geo, map_points, map_shown, notice, table, csv, provider_error,
                    geo_cache >>

----------------------------------------------------------------------------
(* Reset *)

\* Mutant of uuid4: the suffix is a fixed string.
uuid4_fixed(used) == 1

\* str(uuid.uuid4()): a value that is nowhere in use
uuid4(used) == CHOOSE n \in 1..(Cardinality(used) + 1) : n \notin used

\* the suffixes in the session state and in the browser's widget keys
SuffixesInUse == { k[3] : k \in DOMAIN widgets } \cup { widget_suffix }

\* Mutant of cache_data_clear: only load_data's cache is emptied.
load_data_clear == [data_cache |-> FALSE, geo_cache |-> geo_cache]

\* st.cache_data.clear(): every st.cache_data function's cache is emptied
cache_data_clear == [data_cache |-> FALSE, geo_cache |-> << >>]

----------------------------------------------------------------------------
(* The session.  Each action is given the part of the script it runs.         *)

\* the run of the script: all of it, or lines 95-161
Run(part, w, suffix) ==
    IF part = "script" THEN Render(w, suffix) ELSE CascadeOnly(w, suffix)

\* the session before the first run, for a table of at most n rows
InitWith(n) ==
    /\ df \in SubSeqs(Table, n)
    /\ columns \in Schemas
    /\ data_cache = FALSE
    /\ geo_cache = << >>
    /\ widget_suffix = 0
    /\ widgets = << >>
    /\ pc = "start"
    /\ customers = << >> /\ customer_choice = {}
    /\ sam_vals = << >> /\ sam_choice = {}
    /\ state_vals = << >> /\ state_choice = {}
    /\ zip_vals = << >> /\ zip_choice = {}
    /\ search_text = 0
    /\ selected_stakeholders = << >>
    /\ filtered = << >>
    /\ geo = << >>
    /\ map_points = << >>
    /\ map_shown = FALSE /\ notice = FALSE
    /\ table = NoTable
    /\ csv = << >>
    /\ outcome = "none"
    /\ provider_error = FALSE

Fixed == UNCHANGED << df, columns >>

\* The first run of the script in a session (lines 75-76 draw the suffix).
StartWith(part) ==
    /\ pc = "start"
    /\ widget_suffix = 0
    /\ Run(part, widgets, uuid4(SuffixesInUse))
    /\ widget_suffix' = uuid4(SuffixesInUse)
    /\ pc' = "idle"
    /\ Fixed

\* The user edits one widget the page shows; the script runs again.
Interact(key, value, part) ==
    /\ pc = "idle"
    /\ key \in DOMAIN widgets
    /\ value # widgets[key].value
    /\ Run(part, [widgets EXCEPT ![key].value = value], widget_suffix)
    /\ UNCHANGED << widget_suffix, pc >>
    /\ Fixed

\* the user adds or removes one entry of a multiselect
Toggle(kind, part) ==
    LET key == Key(kind, "", widget_suffix)
    IN  /\ key \in DOMAIN widgets
        /\ \E v \in Range(widgets[key].options) :
             Interact(key,
                      IF v \in widgets[key].value THEN widgets[key].value \ {v}
                      ELSE widgets[key].value \cup {v},
                      part)

\* the user types a search text, or clears it
TypeSearchWith(part) ==
    \E t \in SearchTexts \cup {0} : Interact(Key("search", "", widget_suffix), t, part)

\* the user ticks or unticks a stakeholder checkbox
ToggleSlicerWith(part) ==
    \E c \in Range(stakeholder_columns) :
        LET key == Key("slicer", c, widget_suffix)
        IN  /\ key \in DOMAIN widgets
            /\ Interact(key, ~widgets[key].value, part)

\* lines 81-87: the button press.  The script runs up to st.rerun(); the page
\* of the previous pass stays until the rerun replaces it, and the browser
\* still holds its widget values.
ResetFilters ==
    /\ pc = "idle"
    /\ data_cache' = cache_data_clear.data_cache
    /\ geo_cache' = cache_data_clear.geo_cache
    /\ widget_suffix' = uuid4(SuffixesInUse)
    /\ pc' = "rerun"
    /\ outcome' = "rerun"
    /\ UNCHANGED << widgets, customers, customer_choice, sam_vals, sam_choice,
                    state_vals, state_choice, zip_vals, zip_choice, search_text,
                    selected_stakeholders, filtered, geo, map_points, map_shown,
                    notice, table, csv, provider_error >>
    /\ Fixed

\* the run st.rerun() starts
RerunWith(part) ==
    /\ pc = "rerun"
    /\ Run(part, widgets, widget_suffix)
    /\ pc' = "idle"
    /\ UNCHANGED widget_suffix
    /\ Fixed

\* The whole script.
Init == InitWith(SessionRows)
Start == StartWith("script")
SelectCustomer == Toggle("cust", "script")
SelectSam == Toggle("sam", "script")
SelectState == Toggle("state", "script")
SelectZip == Toggle("zip", "script")
TypeSearch == TypeSearchWith("script")
ToggleSlicer == ToggleSlicerWith("script")
Rerun == RerunWith("script")

Next ==
    \/ Start
    \/ SelectCustomer
    \/ SelectSam
    \/ SelectState
    \/ SelectZip
    \/ TypeSearch
    \/ ToggleSlicer
    \/ ResetFilters
    \/ Rerun

Spec == Init /\ [][Next]_vars

\* The filter controls, the reset and the filter (lines 70-161), on larger
\* tables.  Nothing in lines 163-232 writes what these lines read, so the
\* selections, lists and filtered rows this specification reaches are those
\* the whole script reaches.
CascadeInit == InitWith(MaxRows)
CascadeStart == StartWith("cascade")
CascadeSelectCustomer == Toggle("cust", "cascade")
CascadeSelectSam == Toggle("sam", "cascade")
CascadeSelectState == Toggle("state", "cascade")
CascadeSelectZip == Toggle("zip", "cascade")
CascadeTypeSearch == TypeSearchWith("cascade")
CascadeToggleSlicer == ToggleSlicerWith("cascade")
CascadeRerun == RerunWith("cascade")

CascadeNext ==
    \/ CascadeStart
    \/ CascadeSelectCustomer
    \/ CascadeSelectSam
    \/ CascadeSelectState
    \/ CascadeSelectZip
    \/ CascadeTypeSearch
    \/ CascadeToggleSlicer
    \/ ResetFilters
    \/ CascadeRerun

SpecCascade == CascadeInit /\ [][CascadeNext]_vars

----------------------------------------------------------------------------
(* Properties *)

\* the last pass reached the filter step (line 161)
FilterRan == outcome \in {"ok", "GeocodeError", "filtered"}

\* the values a column offers anywhere in the table
ColumnValues(col) == IF col \in columns THEN dropna_unique(AllRows, col) ELSE {}

\* row i satisfies the selection of column col: an empty selection admits
\* every row
Admits(i, col, choice) == choice = {} \/ df[i][col] \in choice

\* C1: with empty search text the filtered rows are exactly the rows of the
\* table that satisfy every non-empty dimension selection; an empty selection
\* removes no row and the four constraints are ANDed.
C1_FilteredIsConjunction ==
    (FilterRan /\ search_text = 0) =>
        filtered = SelectSeq(AllRows, LAMBDA i :
                       /\ Admits(i, "Customer", customer_choice)
                       /\ Admits(i, "WSC_SAM", sam_choice)
                       /\ Admits(i, "State", state_choice)
                       /\ Admits(i, "Zip", zip_choice))

\* C1 witness: two dimensions are constrained, one is left empty, and the
\* constraints remove some rows and keep others.
C1_Witness ==
    /\ FilterRan /\ search_text = 0
    /\ customer_choice # {} /\ state_choice # {} /\ zip_choice = {}
    /\ filtered # << >> /\ Len(filtered) < Len(df)

\* C2: each candidate list holds the distinct non-null values of its column
\* among the rows that match the selections of the dimensions before it in
\* the order Customer, SAM, State, Zip; an empty selection restricts nothing.
C2_CandidatesFromUpstream ==
    pc = "idle" =>
        /\ "Customer" \in columns => Range(customers) = ColumnValues("Customer")
        /\ "WSC_SAM" \in columns =>
             Range(sam_vals) =
                 { df[i].WSC_SAM : i \in { j \in 1..Len(df) :
                       Admits(j, "Customer", customer_choice) } } \ {NaN}
        /\ FilterRan =>
             /\ Range(state_vals) =
                    { df[i].State : i \in { j \in 1..Len(df) :
                          /\ Admits(j, "Customer", customer_choice)
                          /\ Admits(j, "WSC_SAM", sam_choice) } }
             /\ Range(zip_vals) =
                    { df[i].Zip : i \in { j \in 1..Len(df) :
                          /\ Admits(j, "Customer", customer_choice)
                          /\ Admits(j, "WSC_SAM", sam_choice)
                          /\ Admits(j, "State", state_choice) } }

\* C2 witness: customers, SAMs and states are chosen and the ZIP list offers
\* fewer values than the table holds.
C2_Witness ==
    /\ pc = "idle" /\ FilterRan
    /\ customer_choice # {} /\ sam_choice # {} /\ state_choice # {}
    /\ Range(zip_vals) # ColumnValues("Zip")

\* the row counts after one dimension's selection is replaced by a superset
GrownCounts(grows(_, _)) ==
    { Len(ApplyFilters(cc, sam_choice, state_choice, zip_choice, search_text)) :
        cc \in { c \in SUBSET ColumnValues("Customer") : grows(customer_choice, c) } }
    \cup
    { Len(ApplyFilters(customer_choice, sc, state_choice, zip_choice, search_text)) :
        sc \in { c \in SUBSET ColumnValues("WSC_SAM") : grows(sam_choice, c) } }
    \cup
    { Len(ApplyFilters(customer_choice, sam_choice, stc, zip_choice, search_text)) :
        stc \in { c \in SUBSET ColumnValues("State") : grows(state_choice, c) } }
    \cup
    { Len(ApplyFilters(customer_choice, sam_choice, state_choice, zc, search_text)) :
        zc \in { c \in SUBSET ColumnValues("Zip") : grows(zip_choice, c) } }

\* C3 as stated: replacing one dimension's selection by a superset never
\* yields more rows.
C3_Original ==
    FilterRan =>
        \A n \in GrownCounts(LAMBDA old, new : old \subseteq new) : n <= Len(filtered)

\* C3 amended: giving an unconstrained dimension a non-empty selection never
\* yields more rows; widening a non-empty selection never yields fewer.
C3_Amended ==
    FilterRan =>
        /\ \A n \in GrownCounts(LAMBDA old, new : old = {} /\ new # {}) : n <= Len(filtered)
        /\ \A n \in GrownCounts(LAMBDA old, new : old # {} /\ old \subseteq new) :
               n >= Len(filtered)

\* C3 witness: a customer is chosen, and choosing one more customer would
\* show more rows.
C3_Witness ==
    /\ FilterRan /\ customer_choice # {}
    /\ \E cc \in SUBSET ColumnValues("Customer") :
         /\ customer_choice \subseteq cc
         /\ Len(ApplyFilters(cc, sam_choice, state_choice, zip_choice, search_text))
              > Len(filtered)

\* C4: with a dimension column absent from the table a pass raises no error,
\* the absent dimension's candidate list is empty and its filter step leaves
\* the rows alone.
C4_MissingColumnNeverErrors ==
    (pc = "idle" /\ DimColumns \ columns # {}) =>
        /\ outcome # "KeyError"
        /\ "Customer" \notin columns => customers = << >> /\ customer_choice = {}
        /\ "WSC_SAM" \notin columns => sam_vals = << >> /\ sam_choice = {}
        /\ "State" \notin columns => state_vals = << >> /\ state_choice = {}
        /\ "Zip" \notin columns => zip_vals = << >> /\ zip_choice = {}

\* the geocoder's reference data does not resolve the row's ZIP (unknown ZIP
\* or empty string)
Unresolved(i) == df[i].Zip \notin KnownZips

\* what C5 says of a pass
UnresolvedRowsKeptOffMap ==
        /\ table.rows = filtered
        /\ Len(csv) = Len(filtered) + 1
        /\ \A k \in DOMAIN filtered :
             /\ csv[k + 1] = [ j \in DOMAIN table.cols |-> df[filtered[k]][table.cols[j]] ]
             /\ Unresolved(filtered[k]) =>
                  \A m \in DOMAIN map_points : map_points[m].row # filtered[k]
             /\ ~Unresolved(filtered[k]) =>
                  \E m \in DOMAIN map_points : map_points[m].row = filtered[k]
        /\ (\A k \in DOMAIN filtered : Unresolved(filtered[k])) <=> notice
        /\ notice <=> ~map_shown

\* C5: in every pass that computed the filtered rows, every filtered row with
\* an unresolved ZIP is in the table and in the CSV and is not among the map's
\* points; when no filtered row has coordinates the notice is shown and no
\* map.
C5_EveryPass == FilterRan => UnresolvedRowsKeptOffMap

\* C5 restricted to the passes in which geocode_zips returns.
C5_WhenGeocoderReturns == outcome = "ok" => UnresolvedRowsKeptOffMap

\* C5 witness: the map is drawn while a filtered row has an unresolved ZIP.
C5_Witness ==
    /\ outcome = "ok" /\ map_shown
    /\ \E k \in DOMAIN filtered : Unresolved(filtered[k])

\* C6: a pass in which the geocoding provider fails still produces the table
\* and the CSV of the filtered rows and shows the notice.
C6_ProviderFailureNonFatal ==
    provider_error =>
        /\ outcome = "ok"
        /\ table.rows = filtered
        /\ Len(csv) = Len(filtered) + 1
        /\ notice

\* the value a widget shows is its default
IsDefault(k) ==
    IF k[1] \in {"cust", "sam", "state", "zip"} THEN widgets[k].value = {}
    ELSE IF k[1] = "search" THEN widgets[k].value = 0
    ELSE widgets[k].value = FALSE

\* C7: the pass that follows Reset sees the four selections empty, the search
\* text empty and every stakeholder checkbox unchecked, and every widget of
\* the page shows its default.
C7_ResetClearsSelections ==
    [][ pc = "rerun" =>
          /\ customer_choice' = {} /\ sam_choice' = {}
          /\ state_choice' = {} /\ zip_choice' = {}
          /\ search_text' = 0
          /\ selected_stakeholders' = << >>
          /\ \A k \in DOMAIN widgets' : IsDefault(k)' ]_vars

\* C7 witness: Reset was pressed on a page with selections, a search text and
\* a checked stakeholder column.
C7_Witness ==
    /\ pc = "rerun"
    /\ customer_choice # {} /\ zip_choice # {}
    /\ search_text # 0
    /\ selected_stakeholders # << >>

\* the step is the press of the Reset button
IsReset == pc = "idle" /\ pc' = "rerun"

CustomerKept ==
    /\ customers' = customers
    /\ customer_choice' = customer_choice
    /\ customer_choice' \subseteq Range(customers')
SamKept ==
    /\ sam_vals' = sam_vals
    /\ sam_choice' = sam_choice
    /\ sam_choice' \subseteq Range(sam_vals')
StateKept ==
    /\ state_vals' = state_vals
    /\ state_choice' = state_choice
    /\ state_choice' \subseteq Range(state_vals')

\* C9: a change of the SAM, State or ZIP selection leaves the candidate list
\* and the selection of every earlier dimension as they were, so the chosen
\* values stay in their lists.
C9_LaterChoiceKeepsEarlierLists ==
    [][ (pc = "idle" /\ pc' = "idle") =>
          /\ CascadeSelectSam => CustomerKept
          /\ CascadeSelectState => (CustomerKept /\ SamKept)
          /\ CascadeSelectZip => (CustomerKept /\ SamKept /\ StateKept) ]_vars

\* C9 witness: every dimension carries a selection, the ZIP chosen last.
C9_Witness ==
    /\ pc = "idle" /\ FilterRan
    /\ customer_choice # {} /\ sam_choice # {} /\ state_choice # {} /\ zip_choice # {}

\* C10: for a non-empty table, when every selection is drawn from the
\* candidate list its dimension was offered and the search text is empty,
\* some row is left.
C10_NoDeadEnd ==
    ( /\ FilterRan /\ df # << >> /\ search_text = 0
      /\ customer_choice \subseteq Range(customers)
      /\ sam_choice \subseteq Range(sam_vals)
      /\ state_choice \subseteq Range(state_vals)
      /\ zip_choice \subseteq Range(zip_vals) )
    => filtered # << >>

\* C10 witness: customer and SAM are chosen from lists the cascade narrowed,
\* and rows remain.
C10_Witness ==
    /\ FilterRan /\ search_text = 0
    /\ customer_choice # {} /\ sam_choice # {}
    /\ Range(sam_vals) # ColumnValues("WSC_SAM")
    /\ filtered # << >> /\ Len(filtered) < Len(df)

====
